---- MODULE Spec2Model ----
(***************************************************************************)
(* Model of c3py/history.py: Instruction / Operation records, History and  *)
(* its causal views, the oracle replay (satisfies) with the reference      *)
(* read/write memory, and the three checkers check_CC, check_CM and        *)
(* check_CCv.  The order engine (c3py.poset.Poset) is modelled from its    *)
(* documented contract.                                                    *)
(*                                                                         *)
(* Encoding of Python values:                                              *)
(*   - None in a scalar slot (ret, op_id) is the string "None"; recorded   *)
(*     values are the decimal strings "1", "2", ...                        *)
(*   - arg is a tuple: <<key, value>> for wr and <<key>> for rd;           *)
(*   - an Operation is a record with a ret field, an Instruction a record  *)
(*     without one (isinstance(x, Operation) is  "ret" \in DOMAIN x);      *)
(*   - an optional object slot of a result record is <<>> when it holds    *)
(*     None and <<x>> when it holds the object x;                          *)
(*   - objects live in a heap (a sequence of History values) so that       *)
(*     copying and aliasing are distinguishable.                           *)
(***************************************************************************)
EXTENDS Integers, Sequences, FiniteSets, TLC

\* ------------------------------------------------------------------ bounds
MaxOps == 3      \* total number of operations in a trace
MaxLog == 3      \* number of entries in a log handed to the oracle

ProcSeq == <<"a", "b">>     \* the trace's process ids, in dict order
Procs == {ProcSeq[i] : i \in 1..Len(ProcSeq)}
Keys == {"x"}
Values == {"1", "2"}           \* the values a trace may record

None == "None"
NoObject == <<>>
Some(x) == <<x>>

\* --------------------------------------------------- Instruction, Operation
Instruction(method, arg, op_id) ==
    [method |-> method, arg |-> arg, op_id |-> op_id]

Operation(method, arg, ret, op_id) ==
    [method |-> method, arg |-> arg, ret |-> ret, op_id |-> op_id]

isOperation(x) == "ret" \in DOMAIN x

\* raised when to_instruction is looked up on an Instruction (AttributeError)
AttributeError == [error |-> "AttributeError"]

\* variant: the op_id is not carried over
to_instruction_drop_id(self) ==
    IF isOperation(self)
    THEN Instruction(self.method, self.arg, None)
    ELSE AttributeError

\* variant: an Instruction projects to itself
to_instruction_lenient(self) ==
    IF isOperation(self)
    THEN Instruction(self.method, self.arg, self.op_id)
    ELSE self

\* Operation.to_instruction; an Instruction has no such method
to_instruction(self) ==
    IF isOperation(self)
    THEN Instruction(self.method, self.arg, self.op_id)
    ELSE AttributeError

\* ------------------------------------------------------------ order engine
\* A poset is its universe and its strict order, a transitive set of pairs.
TransitiveClosure(R) ==
    LET RECURSIVE Fix(_)
        Fix(S) == LET T == S \cup {<<x[1][1], x[2][2]>> :
                                     x \in {y \in S \X S : y[1][2] = y[2][1]}}
                  IN IF T = S THEN S ELSE Fix(T)
    IN Fix(R)

Poset(elements) == [elems |-> elements, lt |-> {}]

order_try(poset, a, b) ==
    IF a = b \/ <<b, a>> \in poset.lt \/ a \notin poset.elems \/ b \notin poset.elems
    THEN poset
    ELSE [poset EXCEPT !.lt = TransitiveClosure(poset.lt \cup {<<a, b>>})]

predecessors(poset, op_id) ==
    {op_id} \cup {o \in poset.elems : <<o, op_id>> \in poset.lt}

subset(poset, ids) ==
    [elems |-> poset.elems \cap ids,
     lt |-> {e \in poset.lt : e[1] \in ids /\ e[2] \in ids}]

\* op ids in a fixed iteration order: process by process, index by index
op_id_of(process, i) == process \o "." \o ToString(i)

AllIds ==
    LET RECURSIVE Build(_)
        Build(k) == IF k > Len(ProcSeq) THEN <<>>
                    ELSE [i \in 1..MaxOps |-> op_id_of(ProcSeq[k], i)] \o Build(k + 1)
    IN Build(1)

elements(poset) == SelectSeq(AllIds, LAMBDA o : o \in poset.elems)

Rank(o) == CHOOSE k \in 1..Len(AllIds) : AllIds[k] = o

\* every linear extension, smallest available element first
RECURSIVE all_topological_sorts(_)
all_topological_sorts(poset) ==
    IF poset.elems = {} THEN << <<>> >>
    ELSE LET mins == SelectSeq(elements(poset),
                       LAMBDA m : \A o \in poset.elems : <<o, m>> \notin poset.lt)
             RECURSIVE From(_)
             From(k) ==
                 IF k > Len(mins) THEN <<>>
                 ELSE LET rest == all_topological_sorts(
                                      subset(poset, poset.elems \ {mins[k]}))
                      IN [j \in 1..Len(rest) |-> <<mins[k]>> \o rest[j]] \o From(k + 1)
         IN From(1)

\* the unordered pairs the order leaves open, in iteration order
OpenPairs(poset) ==
    LET ids == elements(poset)
        RECURSIVE Row(_, _)
        Row(i, j) ==
            IF i > Len(ids) THEN <<>>
            ELSE IF j > Len(ids) THEN Row(i + 1, i + 2)
            ELSE (IF <<ids[i], ids[j]>> \in poset.lt \/ <<ids[j], ids[i]>> \in poset.lt
                  THEN <<>> ELSE << <<ids[i], ids[j]>> >>) \o Row(i, j + 1)
    IN Row(1, 2)

IsStrictOrder(R) ==
    /\ \A p \in R : <<p[2], p[1]>> \notin R
    /\ \A p, q \in R : p[2] = q[1] => <<p[1], q[2]>> \in R

\* every order on the same universe that contains the given one: each open pair
\* is left open, ordered one way, or ordered the other way; the first
\* refinement is the order itself
refinements(poset) ==
    LET open == OpenPairs(poset)
        RECURSIVE Choose(_)
        Choose(k) ==
            IF k > Len(open) THEN << {} >>
            ELSE LET rest == Choose(k + 1)
                     a == open[k][1]
                     b == open[k][2]
                 IN rest
                    \o [j \in 1..Len(rest) |-> rest[j] \cup {<<a, b>>}]
                    \o [j \in 1..Len(rest) |-> rest[j] \cup {<<b, a>>}]
        cands == Choose(1)
        lts == SelectSeq([j \in 1..Len(cands) |-> poset.lt \cup cands[j]], IsStrictOrder)
    IN [j \in 1..Len(lts) |-> [elems |-> poset.elems, lt |-> lts[j]]]

\* ------------------------------------------------------------------ traces
\* what a trace entry may be: Operation(method, arg, ret), op_id left at None
OpChoices ==
    {Operation("wr", <<k, v>>, None, None) : k \in Keys, v \in Values}
    \cup {Operation("rd", <<k>>, r, None) : k \in Keys, r \in Values \cup {None}}

TraceLen(d) ==
    LET RECURSIVE Sum(_)
        Sum(k) == IF k > Len(ProcSeq) THEN 0 ELSE Len(d[ProcSeq[k]]) + Sum(k + 1)
    IN Sum(1)

TracesOver(choices) ==
    {d \in [Procs -> UNION {[1..n -> choices] : n \in 0..MaxOps}] :
        TraceLen(d) <= MaxOps}

Traces == TracesOver(OpChoices)

\* named traces beyond the exhaustive ones.  Two four-operation traces on
\* which the three models disagree (causally consistent and a causal memory but
\* not convergent; causally consistent but neither of the other two), and one
\* in which the value read from x is written to another key only
NamedTraces ==
    {[a |-> <<Operation("wr", <<"x", "1">>, None, None),
              Operation("rd", <<"x">>, "2", None)>>,
      b |-> <<Operation("wr", <<"x", "2">>, None, None),
              Operation("rd", <<"x">>, "1", None)>>],
     [a |-> <<Operation("wr", <<"x", "1">>, None, None)>>,
      b |-> <<Operation("wr", <<"x", "2">>, None, None),
              Operation("rd", <<"x">>, "1", None),
              Operation("rd", <<"x">>, "2", None)>>],
     [a |-> <<Operation("wr", <<"y", "2">>, None, None)>>,
      b |-> <<Operation("rd", <<"x">>, "2", None)>>]}

\* a smaller alphabet for the calls whose work does not depend on the values
ViewOpChoices ==
    {Operation("wr", <<"x", "1">>, None, None),
     Operation("rd", <<"x">>, "1", None)}

ViewTraces == TracesOver(ViewOpChoices)

\* ----------------------------------------------------------------- History
replace_op_id(op, op_id) == [op EXCEPT !.op_id = op_id]

\* variant: one chain runs through the processes, each after the one before
HistoryInit_one_chain(d) ==
    LET slots == {<<p, i>> \in Procs \X (1..MaxOps) : i <= Len(d[p])}
        operations == {op_id_of(s[1], s[2]) : s \in slots}
        slotOf(o) == CHOOSE s \in slots : op_id_of(s[1], s[2]) = o
        label == [o \in operations |->
                     replace_op_id(d[slotOf(o)[1]][slotOf(o)[2]], o)]
        RECURSIVE Chain(_, _, _)
        Chain(poset, k, i) ==
            IF k > Len(ProcSeq) THEN poset
            ELSE IF i > Len(d[ProcSeq[k]]) - 1
            THEN Chain(IF k < Len(ProcSeq)
                       THEN order_try(poset, op_id_of(ProcSeq[k], i),
                                      op_id_of(ProcSeq[k + 1], 1))
                       ELSE poset, k + 1, 1)
            ELSE Chain(order_try(poset, op_id_of(ProcSeq[k], i),
                                 op_id_of(ProcSeq[k], i + 1)), k, i + 1)
    IN [operations |-> operations,
        label |-> label,
        poset |-> Chain(Poset(operations), 1, 1)]

HistoryInit(d) ==
    LET slots == {<<p, i>> \in Procs \X (1..MaxOps) : i <= Len(d[p])}
        operations == {op_id_of(s[1], s[2]) : s \in slots}
        slotOf(o) == CHOOSE s \in slots : op_id_of(s[1], s[2]) = o
        label == [o \in operations |->
                     replace_op_id(d[slotOf(o)[1]][slotOf(o)[2]], o)]
        RECURSIVE Chain(_, _, _)
        Chain(poset, k, i) ==
            IF k > Len(ProcSeq) THEN poset
            ELSE IF i > Len(d[ProcSeq[k]]) - 1 THEN Chain(poset, k + 1, 1)
            ELSE Chain(order_try(poset, op_id_of(ProcSeq[k], i),
                                 op_id_of(ProcSeq[k], i + 1)), k, i + 1)
    IN [operations |-> operations,
        label |-> label,
        poset |-> Chain(Poset(operations), 1, 1)]

\* ------------------------------------------------------------------- heap
\* The objects of one call: heap[1] is the caller's History, later cells are
\* the copies the call makes.  deepcopy allocates a fresh, equal cell.

\* variant: no copy is made, the same cell is used
deepcopy_alias(heap, ref) == [heap |-> heap, ref |-> ref]

deepcopy(heap, ref) == [heap |-> Append(heap, heap[ref]), ref |-> Len(heap) + 1]

\* variant: the test on ret_set is inverted
causal_hist_inverted(heap, self, op_id, ret_set) ==
    LET \* self.label = {...}, unless to_instruction raised on the way
        Relabel(hp, ch, new) ==
            IF \E o \in DOMAIN new : new[o] = AttributeError
            THEN [heap |-> hp, ref |-> 0, raised |-> TRUE]
            ELSE [heap |-> [hp EXCEPT ![ch].label = new], ref |-> ch, raised |-> FALSE]
        Label(hp, ch, old) ==
            Relabel(hp, ch, [o \in DOMAIN old |->
                                IF o \notin ret_set THEN old[o] ELSE to_instruction(old[o])])
        \* ch.operations = p; ch.poset = ch.poset.subset(p)
        Restrict(hp, ch, p) ==
            Label([hp EXCEPT ![ch].operations = p,
                             ![ch].poset = subset(hp[ch].poset, p)],
                  ch, hp[ch].label)
        Copied(c) == Restrict(c.heap, c.ref, predecessors(c.heap[c.ref].poset, op_id))
    IN Copied(deepcopy(heap, self))

\* variant: the causal past leaves op_id itself out
causal_hist_strict_past(heap, self, op_id, ret_set) ==
    LET \* self.label = {...}, unless to_instruction raised on the way
        Relabel(hp, ch, new) ==
            IF \E o \in DOMAIN new : new[o] = AttributeError
            THEN [heap |-> hp, ref |-> 0, raised |-> TRUE]
            ELSE [heap |-> [hp EXCEPT ![ch].label = new], ref |-> ch, raised |-> FALSE]
        Label(hp, ch, old) ==
            Relabel(hp, ch, [o \in DOMAIN old |->
                                IF o \in ret_set THEN old[o] ELSE to_instruction(old[o])])
        \* ch.operations = p; ch.poset = ch.poset.subset(p)
        Restrict(hp, ch, p) ==
            Label([hp EXCEPT ![ch].operations = p,
                             ![ch].poset = subset(hp[ch].poset, p)],
                  ch, hp[ch].label)
        Copied(c) == Restrict(c.heap, c.ref, predecessors(c.heap[c.ref].poset, op_id) \ {op_id})
    IN Copied(deepcopy(heap, self))

\* History.causal_hist: [heap, ref] of the restricted copy, or raised
causal_hist(heap, self, op_id, ret_set) ==
    LET \* self.label = {...}, unless to_instruction raised on the way
        Relabel(hp, ch, new) ==
            IF \E o \in DOMAIN new : new[o] = AttributeError
            THEN [heap |-> hp, ref |-> 0, raised |-> TRUE]
            ELSE [heap |-> [hp EXCEPT ![ch].label = new], ref |-> ch, raised |-> FALSE]
        Label(hp, ch, old) ==
            Relabel(hp, ch, [o \in DOMAIN old |->
                                IF o \in ret_set THEN old[o] ELSE to_instruction(old[o])])
        \* ch.operations = p; ch.poset = ch.poset.subset(p)
        Restrict(hp, ch, p) ==
            Label([hp EXCEPT ![ch].operations = p,
                             ![ch].poset = subset(hp[ch].poset, p)],
                  ch, hp[ch].label)
        Copied(c) == Restrict(c.heap, c.ref, predecessors(c.heap[c.ref].poset, op_id))
    IN Copied(deepcopy(heap, self))

\* variant: the slice of the filtered arb starts one entry late
causal_arb_late_slice(heap, self, op_id, arb) ==
    LET Build(history, idx) ==
            IF idx = 0 \/ \E i \in 1..Len(history) : history[i] = AttributeError
            THEN [heap |-> heap, log |-> <<>>, raised |-> TRUE]
            ELSE [heap |-> heap,
                  log |-> [history EXCEPT ![idx] = heap[self].label[op_id]],
                  raised |-> FALSE]
        Cut(arb2, idx) ==
            Build([i \in 1..(idx - 1) |-> to_instruction(heap[self].label[arb2[i + 1]])],
                  idx - 1)
        Filtered(arb2) ==
            Cut(arb2, CHOOSE i \in 1..Len(arb2) :
                          arb2[i] = op_id /\ \A j \in 1..(i - 1) : arb2[j] # op_id)
        In(p) == Filtered(SelectSeq(arb, LAMBDA o : o \in p))
    IN In(predecessors(heap[self].poset, op_id))

\* variant: arb is not filtered to the causal past
causal_arb_unfiltered(heap, self, op_id, arb) ==
    LET Build(history, idx) ==
            IF \E i \in 1..Len(history) : history[i] = AttributeError
            THEN [heap |-> heap, log |-> <<>>, raised |-> TRUE]
            ELSE [heap |-> heap,
                  log |-> [history EXCEPT ![idx] = heap[self].label[op_id]],
                  raised |-> FALSE]
        Cut(arb2, idx) ==
            Build([i \in 1..idx |-> to_instruction(heap[self].label[arb2[i]])], idx)
        \* arb.index(op_id) in the filtered arb
        Filtered(arb2) ==
            Cut(arb2, CHOOSE i \in 1..Len(arb2) :
                          arb2[i] = op_id /\ \A j \in 1..(i - 1) : arb2[j] # op_id)
        In(p) == Filtered(arb)
    IN In(predecessors(heap[self].poset, op_id))

\* variant: the entry of op_id is not put back in full
causal_arb_all_hidden(heap, self, op_id, arb) ==
    LET Build(history, idx) ==
            IF \E i \in 1..Len(history) : history[i] = AttributeError
            THEN [heap |-> heap, log |-> <<>>, raised |-> TRUE]
            ELSE [heap |-> heap,
                  log |-> history,
                  raised |-> FALSE]
        Cut(arb2, idx) ==
            Build([i \in 1..idx |-> to_instruction(heap[self].label[arb2[i]])], idx)
        \* arb.index(op_id) in the filtered arb
        Filtered(arb2) ==
            Cut(arb2, CHOOSE i \in 1..Len(arb2) :
                          arb2[i] = op_id /\ \A j \in 1..(i - 1) : arb2[j] # op_id)
        In(p) == Filtered(SelectSeq(arb, LAMBDA o : o \in p))
    IN In(predecessors(heap[self].poset, op_id))

\* variant: the filtered arb is not cut after op_id
causal_arb_untruncated(heap, self, op_id, arb) ==
    LET Build(history, idx) ==
            IF \E i \in 1..Len(history) : history[i] = AttributeError
            THEN [heap |-> heap, log |-> <<>>, raised |-> TRUE]
            ELSE [heap |-> heap,
                  log |-> [history EXCEPT ![idx] = heap[self].label[op_id]],
                  raised |-> FALSE]
        Cut(arb2, idx) ==
            Build([i \in 1..Len(arb2) |-> to_instruction(heap[self].label[arb2[i]])], idx)
        \* arb.index(op_id) in the filtered arb
        Filtered(arb2) ==
            Cut(arb2, CHOOSE i \in 1..Len(arb2) :
                          arb2[i] = op_id /\ \A j \in 1..(i - 1) : arb2[j] # op_id)
        In(p) == Filtered(SelectSeq(arb, LAMBDA o : o \in p))
    IN In(predecessors(heap[self].poset, op_id))

\* History.causal_arb: the log, or raised; the receiver is only read
causal_arb(heap, self, op_id, arb) ==
    LET Build(history, idx) ==
            IF \E i \in 1..Len(history) : history[i] = AttributeError
            THEN [heap |-> heap, log |-> <<>>, raised |-> TRUE]
            ELSE [heap |-> heap,
                  log |-> [history EXCEPT ![idx] = heap[self].label[op_id]],
                  raised |-> FALSE]
        Cut(arb2, idx) ==
            Build([i \in 1..idx |-> to_instruction(heap[self].label[arb2[i]])], idx)
        \* arb.index(op_id) in the filtered arb
        Filtered(arb2) ==
            Cut(arb2, CHOOSE i \in 1..Len(arb2) :
                          arb2[i] = op_id /\ \A j \in 1..(i - 1) : arb2[j] # op_id)
        In(p) == Filtered(SelectSeq(arb, LAMBDA o : o \in p))
    IN In(predecessors(heap[self].poset, op_id))

\* ------------------------------------------------------------------ oracle
\* RWMemorySpecification: the state is a mapping from the written keys
start == [k \in {} |-> None]

state_get(state, key) == IF key \in DOMAIN state THEN state[key] ELSE None

\* variant: a write does not replace the value a key already has
step_first_write_wins(state, instr) ==
    IF instr.method = "wr"
    THEN [state |-> [k \in DOMAIN state \cup {instr.arg[1]} |->
                        IF k \in DOMAIN state THEN state[k] ELSE instr.arg[2]],
          op |-> Operation("wr", instr.arg, None, None)]
    ELSE IF instr.method = "rd"
    THEN [state |-> state,
          op |-> Operation("rd", instr.arg, state_get(state, instr.arg[1]), None)]
    ELSE [state |-> state, op |-> [error |-> "AssertionError"]]

step(state, instr) ==
    IF instr.method = "wr"
    THEN [state |-> [k \in DOMAIN state \cup {instr.arg[1]} |->
                        IF k = instr.arg[1] THEN instr.arg[2] ELSE state[k]],
          op |-> Operation("wr", instr.arg, None, None)]
    ELSE IF instr.method = "rd"
    THEN [state |-> state,
          op |-> Operation("rd", instr.arg, state_get(state, instr.arg[1]), None)]
    ELSE [state |-> state, op |-> [error |-> "AssertionError"]]

\* variant: the recorded returns are never compared
satisfies_unchecked(log) ==
    LET RECURSIVE Loop(_, _)
        Loop(state, i) ==
            IF i > Len(log) THEN TRUE
            ELSE LET r == step(state, log[i])
                 IN IF FALSE
                    THEN FALSE
                    ELSE Loop(r.state, i + 1)
    IN Loop(start, 1)

\* variant: the state is not carried from one entry to the next
satisfies_no_advance(log) ==
    LET RECURSIVE Loop(_, _)
        Loop(state, i) ==
            IF i > Len(log) THEN TRUE
            ELSE LET r == step(state, log[i])
                 IN IF isOperation(log[i]) /\ r.op.ret # log[i].ret
                    THEN FALSE
                    ELSE Loop(state, i + 1)
    IN Loop(start, 1)

\* Specification.satisfies: replay log from start, comparing the entries that
\* carry a return
satisfies(log) ==
    LET RECURSIVE Loop(_, _)
        Loop(state, i) ==
            IF i > Len(log) THEN TRUE
            ELSE LET r == step(state, log[i])
                 IN IF isOperation(log[i]) /\ r.op.ret # log[i].ret
                    THEN FALSE
                    ELSE Loop(r.state, i + 1)
    IN Loop(start, 1)

\* ---------------------------------------------------------------- checkers
EmptyDict == [o \in {} |-> <<>>]

\* the cells a call's locals held are dropped when the locals are rebound
release(heap) == SubSeq(heap, 1, 1)

\* variant: the log is filed under the id of its first entry
record_by_first(serializations, op_id, log) ==
    (log[1].op_id :> log) @@ serializations

\* serializations[op_id] = log
record(serializations, op_id, log) == (op_id :> log) @@ serializations

\* variant: the predecessors are taken in the candidate order
po_past_co(heap, h, co, op_id) == predecessors(co, op_id)

\* variant: the predecessors leave op_id itself out
po_past_strict(heap, h, co, op_id) == predecessors(heap[h].poset, op_id) \ {op_id}

\* check_CM's po_past: the predecessors in the caller's own order
po_past(heap, h, co, op_id) == predecessors(heap[h].poset, op_id)

log_of(label, ro) == [i \in 1..Len(ro) |-> label[ro[i]]]

\* variant: the last satisfying serialization is taken
first_satisfying_last(label, ros) ==
    LET RECURSIVE Loop(_)
        Loop(k) == IF k < 1 THEN 0
                   ELSE IF satisfies(log_of(label, ros[k])) THEN k
                   ELSE Loop(k - 1)
    IN Loop(Len(ros))

\* index of the first serialization whose log satisfies the oracle, 0 if none
first_satisfying(label, ros) ==
    LET RECURSIVE Loop(_)
        Loop(k) == IF k > Len(ros) THEN 0
                   ELSE IF satisfies(log_of(label, ros[k])) THEN k
                   ELSE Loop(k + 1)
    IN Loop(1)

\* check_CC: the first causal order under which every view, showing the
\* return of its own operation only, has a serialization the oracle accepts.
\* examined lists, candidate by candidate, the operations looked at and how
\* many serializations of each were handed to the oracle
check_CC(heap, h) ==
    LET RECURSIVE Ops(_, _, _, _, _)
        \* the first serialization of the view that the oracle accepts, if any;
        \* seen grows by the number of serializations handed to the oracle
        Found(hp, co, j, serializations, seen, op_id, label, ros, k) ==
            IF k = 0
            THEN [heap |-> hp, ok |-> FALSE, raised |-> FALSE, sers |-> serializations,
                  seen |-> Append(seen, [op_id |-> op_id, tried |-> Len(ros),
                                         ok |-> FALSE])]
            ELSE Ops(hp, co, j + 1, record(serializations, op_id, log_of(label, ros[k])),
                     Append(seen, [op_id |-> op_id, tried |-> k, ok |-> TRUE]))
        Sorted(hp, co, j, serializations, seen, op_id, label, ros) ==
            Found(hp, co, j, serializations, seen, op_id, label, ros,
                  first_satisfying(label, ros))
        \* r is what ch.causal_hist returned
        Viewed(co, j, serializations, seen, op_id, r) ==
            IF r.raised
            THEN [heap |-> release(r.heap), ok |-> FALSE, raised |-> TRUE,
                  sers |-> serializations, seen |-> seen]
            ELSE Sorted(release(r.heap), co, j, serializations, seen, op_id,
                        r.heap[r.ref].label,
                        all_topological_sorts(r.heap[r.ref].poset))
        \* ch = deepcopy(h); ch.poset = co
        Copied(hp, co, j, serializations, seen, op_id, c) ==
            Viewed(co, j, serializations, seen, op_id,
                   causal_hist([c.heap EXCEPT ![c.ref].poset = co], c.ref, op_id,
                               {op_id}))
        \* for op_id in co.elements()
        Ops(hp, co, j, serializations, seen) ==
            IF j > Len(elements(co))
            THEN [heap |-> hp, ok |-> TRUE, raised |-> FALSE, sers |-> serializations,
                  seen |-> seen]
            ELSE Copied(hp, co, j, serializations, seen, elements(co)[j],
                        deepcopy(hp, h))
        RECURSIVE Cos(_, _, _, _)
        Positive(hp1, ref, serializations, examined) ==
            [heap |-> release(hp1), raised |-> FALSE, examined |-> examined,
             result |-> [is_CC |-> TRUE,
                         causal_history |-> Some(hp1[ref]),
                         serializations |-> Some(serializations)]]
        \* ch = deepcopy(h); ch.poset = co; return the positive result
        Accept(co, serializations, examined, c) ==
            Positive([c.heap EXCEPT ![c.ref].poset = co], c.ref, serializations,
                     examined)
        \* t is what the loop over the operations of cos[i] came to
        Tried(cos, i, examined, t) ==
            IF t.raised
            THEN [heap |-> t.heap, raised |-> TRUE, examined |-> Append(examined, t.seen),
                  result |-> NoObject]
            ELSE IF t.ok
            THEN Accept(cos[i], t.sers, Append(examined, t.seen), deepcopy(t.heap, h))
            ELSE Cos(t.heap, cos, i + 1, Append(examined, t.seen))
        \* for co in h.poset.refinements()
        Cos(hp, cos, i, examined) ==
            IF i > Len(cos)
            THEN [heap |-> hp, raised |-> FALSE, examined |-> examined,
                  result |-> [is_CC |-> FALSE, causal_history |-> NoObject,
                              serializations |-> NoObject]]
            ELSE Tried(cos, i, examined, Ops(hp, cos[i], 1, EmptyDict, <<>>))
    IN Cos(heap, refinements(heap[h].poset), 1, <<>>)

\* check_CM: as check_CC, with the view showing the returns of po_past
check_CM(heap, h) ==
    LET RECURSIVE Ops(_, _, _, _, _)
        \* the first serialization of the view that the oracle accepts, if any;
        \* seen grows by the number of serializations handed to the oracle
        Found(hp, co, j, serializations, seen, op_id, label, ros, k) ==
            IF k = 0
            THEN [heap |-> hp, ok |-> FALSE, raised |-> FALSE, sers |-> serializations,
                  seen |-> Append(seen, [op_id |-> op_id, tried |-> Len(ros),
                                         ok |-> FALSE])]
            ELSE Ops(hp, co, j + 1, record(serializations, op_id, log_of(label, ros[k])),
                     Append(seen, [op_id |-> op_id, tried |-> k, ok |-> TRUE]))
        Sorted(hp, co, j, serializations, seen, op_id, label, ros) ==
            Found(hp, co, j, serializations, seen, op_id, label, ros,
                  first_satisfying(label, ros))
        \* r is what ch.causal_hist returned
        Viewed(co, j, serializations, seen, op_id, r) ==
            IF r.raised
            THEN [heap |-> release(r.heap), ok |-> FALSE, raised |-> TRUE,
                  sers |-> serializations, seen |-> seen]
            ELSE Sorted(release(r.heap), co, j, serializations, seen, op_id,
                        r.heap[r.ref].label,
                        all_topological_sorts(r.heap[r.ref].poset))
        \* ch = deepcopy(h); ch.poset = co
        Copied(hp, co, j, serializations, seen, op_id, c) ==
            Viewed(co, j, serializations, seen, op_id,
                   causal_hist([c.heap EXCEPT ![c.ref].poset = co], c.ref, op_id,
                               po_past(hp, h, co, op_id)))
        \* for op_id in co.elements()
        Ops(hp, co, j, serializations, seen) ==
            IF j > Len(elements(co))
            THEN [heap |-> hp, ok |-> TRUE, raised |-> FALSE, sers |-> serializations,
                  seen |-> seen]
            ELSE Copied(hp, co, j, serializations, seen, elements(co)[j],
                        deepcopy(hp, h))
        RECURSIVE Cos(_, _, _, _)
        Positive(hp1, ref, serializations, examined) ==
            [heap |-> release(hp1), raised |-> FALSE, examined |-> examined,
             result |-> [is_CM |-> TRUE,
                         causal_history |-> Some(hp1[ref]),
                         serializations |-> Some(serializations)]]
        \* ch = deepcopy(h); ch.poset = co; return the positive result
        Accept(co, serializations, examined, c) ==
            Positive([c.heap EXCEPT ![c.ref].poset = co], c.ref, serializations,
                     examined)
        \* t is what the loop over the operations of cos[i] came to
        Tried(cos, i, examined, t) ==
            IF t.raised
            THEN [heap |-> t.heap, raised |-> TRUE, examined |-> Append(examined, t.seen),
                  result |-> NoObject]
            ELSE IF t.ok
            THEN Accept(cos[i], t.sers, Append(examined, t.seen), deepcopy(t.heap, h))
            ELSE Cos(t.heap, cos, i + 1, Append(examined, t.seen))
        \* for co in h.poset.refinements()
        Cos(hp, cos, i, examined) ==
            IF i > Len(cos)
            THEN [heap |-> hp, raised |-> FALSE, examined |-> examined,
                  result |-> [is_CM |-> FALSE, causal_history |-> NoObject,
                              serializations |-> NoObject]]
            ELSE Tried(cos, i, examined, Ops(hp, cos[i], 1, EmptyDict, <<>>))
    IN Cos(heap, refinements(heap[h].poset), 1, <<>>)

\* check_CCv: the first causal order and arbitration under which every view
\* satisfies the oracle
check_CCv(heap, h) ==
    LET RECURSIVE Ops(_, _, _, _, _)
        \* r is what ch.causal_arb returned
        Viewed(co, arb, k, serializations, op_id, r) ==
            IF r.raised
            THEN [heap |-> release(r.heap), ok |-> FALSE, raised |-> TRUE,
                  sers |-> serializations]
            ELSE IF ~satisfies(r.log)
            THEN [heap |-> release(r.heap), ok |-> FALSE, raised |-> FALSE,
                  sers |-> serializations]
            ELSE Ops(release(r.heap), co, arb, k + 1,
                     record(serializations, op_id, r.log))
        \* ch = deepcopy(h); ch.poset = co
        Copied(co, arb, k, serializations, op_id, c) ==
            Viewed(co, arb, k, serializations, op_id,
                   causal_arb([c.heap EXCEPT ![c.ref].poset = co], c.ref, op_id, arb))
        \* for op_id in co.elements()
        Ops(hp, co, arb, k, serializations) ==
            IF k > Len(elements(co))
            THEN [heap |-> hp, ok |-> TRUE, raised |-> FALSE, sers |-> serializations]
            ELSE Copied(co, arb, k, serializations, elements(co)[k], deepcopy(hp, h))
        RECURSIVE Arbs(_, _, _, _, _)
        Positive(hp1, ref, arb, serializations) ==
            [heap |-> release(hp1), found |-> TRUE, raised |-> FALSE,
             result |-> [is_CCv |-> TRUE,
                         causal_history |-> Some(hp1[ref]),
                         arbitration |-> Some(log_of(hp1[h].label, arb)),
                         serializations |-> Some(serializations)]]
        \* ch = deepcopy(h); ch.poset = co; return the positive result
        Accept(co, arb, serializations, c) ==
            Positive([c.heap EXCEPT ![c.ref].poset = co], c.ref, arb, serializations)
        \* t is what the loop over the operations came to under arbs[j]
        Tried(co, arbs, j, t) ==
            IF t.raised
            THEN [heap |-> t.heap, found |-> FALSE, raised |-> TRUE]
            ELSE IF t.ok
            THEN Accept(co, arbs[j], t.sers, deepcopy(t.heap, h))
            ELSE Arbs(t.heap, co, arbs, j + 1, t.sers)
        \* for arb in co.all_topological_sorts(); serializations is not reset
        Arbs(hp, co, arbs, j, serializations) ==
            IF j > Len(arbs)
            THEN [heap |-> hp, found |-> FALSE, raised |-> FALSE]
            ELSE Tried(co, arbs, j, Ops(hp, co, arbs[j], 1, serializations))
        RECURSIVE Cos(_, _, _)
        \* a is what the loop over the arbitrations of cos[i] came to
        Searched(cos, i, a) ==
            IF a.raised
            THEN [heap |-> a.heap, raised |-> TRUE, result |-> NoObject]
            ELSE IF a.found
            THEN [heap |-> a.heap, raised |-> FALSE, result |-> a.result]
            ELSE Cos(a.heap, cos, i + 1)
        \* for co in h.poset.refinements(); serializations = {}
        Cos(hp, cos, i) ==
            IF i > Len(cos)
            THEN [heap |-> hp, raised |-> FALSE,
                  result |-> [is_CCv |-> FALSE, causal_history |-> NoObject,
                              arbitration |-> NoObject, serializations |-> NoObject]]
            ELSE Searched(cos, i, Arbs(hp, cos[i], all_topological_sorts(cos[i]),
                                       1, EmptyDict))
    IN Cos(heap, refinements(heap[h].poset), 1)

\* ------------------------------------------------------------ state machine
VARIABLES
    data,   \* the trace the History was built from
    h,      \* the caller's History
    res     \* the call in progress and what it returned

vars == <<data, h, res>>

NoCall == [call |-> "none"]

Range(s) == {s[i] : i \in 1..Len(s)}

Init ==
    /\ data \in Traces \cup NamedTraces
    /\ h = HistoryInit(data)
    /\ res = NoCall

\* check_CCv came back with r: the caller's History is cell 1 of its heap
Returned(call, r) ==
    /\ h' = r.heap[1]
    /\ res' = [call |-> call, raised |-> r.raised, out |-> r.result]

\* check_CC or check_CM came back with r
ReturnedExamined(call, r) ==
    /\ h' = r.heap[1]
    /\ res' = [call |-> call, raised |-> r.raised, out |-> r.result,
               examined |-> r.examined]

\* check_CC(h, RWMemorySpecification())
CheckCC ==
    /\ res.call = "none"
    /\ ReturnedExamined("check_CC", check_CC(<<h>>, 1))
    /\ UNCHANGED data

\* check_CM(h, RWMemorySpecification())
CheckCM ==
    /\ res.call = "none"
    /\ ReturnedExamined("check_CM", check_CM(<<h>>, 1))
    /\ UNCHANGED data

\* check_CCv(h, RWMemorySpecification())
CheckCCv ==
    /\ res.call = "none"
    /\ Returned("check_CCv", check_CCv(<<h>>, 1))
    /\ UNCHANGED data

\* every sequence without repeats over the ids in S
Perms(S) ==
    LET RECURSIVE P(_)
        P(T) == IF T = {} THEN {<<>>}
                ELSE UNION {{<<o>> \o q : q \in P(T \ {o})} : o \in T}
    IN P(S)

HistReturned(recv, op_id, ret_set, r) ==
    /\ h' = r.heap[1]
    /\ res' = [call |-> "causal_hist", recv |-> recv, op_id |-> op_id,
               ret_set |-> ret_set, raised |-> r.raised,
               out |-> IF r.raised THEN NoObject ELSE Some(r.heap[r.ref])]

HistCalled(hp, ref, op_id, ret_set) ==
    HistReturned(hp[ref], op_id, ret_set, causal_hist(hp, ref, op_id, ret_set))

\* ch = deepcopy(h); ch.poset = co; ch.causal_hist(op_id, ret_set)
CausalHist ==
    /\ res.call = "none"
    /\ \E co \in Range(refinements(h.poset)), op_id \in h.operations,
          ret_set \in SUBSET h.operations :
         LET c == deepcopy(<<h>>, 1)
         IN HistCalled([c.heap EXCEPT ![c.ref].poset = co], c.ref, op_id, ret_set)
    /\ UNCHANGED data

ArbReturned(recv, op_id, arb, r) ==
    /\ h' = r.heap[1]
    /\ res' = [call |-> "causal_arb", recv |-> recv, op_id |-> op_id,
               arb |-> arb, raised |-> r.raised,
               out |-> IF r.raised THEN NoObject ELSE Some(r.log)]

ArbCalled(hp, ref, op_id, arb) ==
    ArbReturned(hp[ref], op_id, arb, causal_arb(hp, ref, op_id, arb))

\* ch = deepcopy(h); ch.poset = co; ch.causal_arb(op_id, arb)
CausalArb ==
    /\ res.call = "none"
    /\ \E co \in Range(refinements(h.poset)), op_id \in h.operations,
          arb \in Perms(h.operations) :
         LET c == deepcopy(<<h>>, 1)
         IN ArbCalled([c.heap EXCEPT ![c.ref].poset = co], c.ref, op_id, arb)
    /\ UNCHANGED data

\* the caller drops the result and goes on
Discard ==
    /\ res.call # "none"
    /\ res' = NoCall
    /\ UNCHANGED <<data, h>>

Next == CheckCC \/ CheckCM \/ CheckCCv \/ Discard

\* the checkers on every trace
Spec == Init /\ [][Next]_vars

InitViews ==
    /\ data \in ViewTraces
    /\ h = HistoryInit(data)
    /\ res = NoCall

NextViews == CausalHist \/ CausalArb \/ CheckCC \/ CheckCM \/ CheckCCv \/ Discard

\* every call, on the traces over the smaller alphabet
SpecViews == InitViews /\ [][NextViews]_vars

\* ------------------------------------------------ causal_hist on its result
AgainReturned(recv, op_id, ret_set, r) ==
    /\ h' = r.heap[1]
    /\ res' = [call |-> "causal_hist_again", recv |-> recv, op_id |-> op_id,
               ret_set |-> ret_set, raised |-> r.raised,
               out |-> IF r.raised THEN NoObject ELSE Some(r.heap[r.ref])]

\* ch.causal_hist(op_id, ret_set), ch being what causal_hist returned
CausalHistAgain ==
    /\ res.call = "causal_hist"
    /\ ~res.raised
    /\ \E op_id \in res.out[1].operations, ret_set \in SUBSET h.operations :
         AgainReturned(res.out[1], op_id, ret_set,
                       causal_hist(<<h, res.out[1]>>, 2, op_id, ret_set))
    /\ UNCHANGED data

NextAgain == CausalHist \/ CausalHistAgain \/ Discard

\* causal_hist, and causal_hist on what it returned
SpecAgain == InitViews /\ [][NextAgain]_vars

\* ----------------------------------------------------- the oracle on logs
OracleKeys == {"x", "y"}

\* what a log entry may be: an Operation with its recorded return, or an
\* Instruction
LogEntries ==
    {Operation("wr", <<k, v>>, r, None) :
         k \in OracleKeys, v \in Values, r \in {None, "1"}}
    \cup {Operation("rd", <<k>>, r, None) : k \in OracleKeys, r \in Values \cup {None}}
    \cup {Instruction("wr", <<k, v>>, None) : k \in OracleKeys, v \in Values}
    \cup {Instruction("rd", <<k>>, None) : k \in OracleKeys}

Logs == UNION {[1..n -> LogEntries] : n \in 0..MaxLog}

InitOracle ==
    /\ data \in {d \in ViewTraces : TraceLen(d) = 0}
    /\ h = HistoryInit(data)
    /\ res = NoCall

\* RWMemorySpecification().satisfies(log)
Satisfies ==
    /\ res.call = "none"
    /\ \E log \in Logs :
         res' = [call |-> "satisfies", log |-> log, out |-> satisfies(log)]
    /\ UNCHANGED <<data, h>>

\* the state satisfies' loop holds after the entries of log
replayed(log) ==
    LET RECURSIVE Loop(_, _)
        Loop(state, i) ==
            IF i > Len(log) THEN state ELSE Loop(step(state, log[i]).state, i + 1)
    IN Loop(start, 1)

StepCalled(log, instr, state) ==
    res' = [call |-> "step", log |-> log, instr |-> instr, state |-> state,
            out |-> step(state, instr)]

\* state, op = self.step(state, instr), in the state reached through log
Step ==
    /\ res.call = "none"
    /\ \E log \in Logs, instr \in LogEntries :
         /\ Len(log) < MaxLog
         /\ StepCalled(log, instr, replayed(log))
    /\ UNCHANGED <<data, h>>

\* the entries of a label: log entries, with or without an op_id
Labelled == {[e EXCEPT !.op_id = i] : e \in LogEntries, i \in {None, "a.1", "b.2"}}

\* op.to_instruction()
ToInstruction ==
    /\ res.call = "none"
    /\ \E op \in Labelled :
         res' = [call |-> "to_instruction", self |-> op, out |-> to_instruction(op)]
    /\ UNCHANGED <<data, h>>

NextOracle == Satisfies \/ Step \/ ToInstruction \/ Discard

\* the oracle and the projections, on every log and entry
SpecOracle == InitOracle /\ [][NextOracle]_vars

\* ------------------------------------------------- what the claims speak of
\* the History as the caller built it
h_in == HistoryInit(data)

StrictOrder(R) ==
    /\ \A e \in R : e[1] # e[2] /\ <<e[2], e[1]>> \notin R
    /\ \A e, f \in R : e[2] = f[1] => <<e[1], f[2]>> \in R

\* every strict order on the same universe that contains the given one
Refinements(poset) ==
    LET free == {e \in poset.elems \X poset.elems :
                    e[1] # e[2] /\ e \notin poset.lt /\ <<e[2], e[1]>> \notin poset.lt}
    IN {[elems |-> poset.elems, lt |-> poset.lt \cup X] :
           X \in {Y \in SUBSET free : StrictOrder(poset.lt \cup Y)}}

LinearExtensions(poset) ==
    {s \in Perms(poset.elems) :
        \A i, j \in 1..Len(s) : i < j => <<s[j], s[i]>> \notin poset.lt}

Past(co, op) == {op} \cup {o \in co.elems : <<o, op>> \in co.lt}

Hidden(op) == [method |-> op.method, arg |-> op.arg, op_id |-> op.op_id]

\* the log of serialization s with the returns of the ids in reveal shown
ViewLog(H, s, reveal) ==
    [i \in 1..Len(s) |->
        IF s[i] \in reveal THEN H.label[s[i]] ELSE Hidden(H.label[s[i]])]

\* the logs of op's causal past under co, one per linear extension
ViewLogs(H, co, op, reveal) ==
    {ViewLog(H, s, reveal) : s \in LinearExtensions(subset(co, Past(co, op)))}

CCExplains(H, co) ==
    \A op \in H.operations : \E log \in ViewLogs(H, co, op, {op}) : satisfies(log)

\* C1: check_CC returns success exactly when some refinement co of the
\* program order gives every operation a linear extension of its causal past,
\* with only its own return shown, that satisfies the oracle; otherwise it
\* returns failure.
C1_CheckCCDecides ==
    res.call = "check_CC" =>
        /\ ~res.raised
        /\ res.out.is_CC <=> \E co \in Refinements(h_in.poset) : CCExplains(h_in, co)

\* check_CC succeeded with an order that adds edges to the program order
C1_Witness ==
    /\ res.call = "check_CC"
    /\ ~res.raised
    /\ res.out.is_CC
    /\ res.out.causal_history[1].poset.lt # h_in.poset.lt

IdsOf(log) == [i \in 1..Len(log) |-> log[i].op_id]

\* arb filtered to op's causal past under co and cut after op: op in full,
\* what precedes it hidden
ArbView(H, co, op, arb) ==
    LET f == SelectSeq(arb, LAMBDA o : o \in Past(co, op))
        idx == CHOOSE i \in 1..Len(f) : f[i] = op
    IN [i \in 1..idx |-> IF i = idx THEN H.label[op] ELSE Hidden(H.label[f[i]])]

CCvExplains(H, co, arb) ==
    \A op \in H.operations : satisfies(ArbView(H, co, op, arb))

\* C2: check_CCv returns success exactly when some refinement co and one
\* linear extension arb of co justify every operation by its causal_arb view;
\* on success the returned arbitration is a linear extension of the returned
\* order and every returned log is the view of that same arbitration.
C2_CheckCCvDecides ==
    res.call = "check_CCv" =>
        /\ ~res.raised
        /\ res.out.is_CCv <=>
               \E co \in Refinements(h_in.poset) :
                   \E arb \in LinearExtensions(co) : CCvExplains(h_in, co, arb)
        /\ res.out.is_CCv =>
               LET W == res.out.causal_history[1]
                   arb == IdsOf(res.out.arbitration[1])
                   sers == res.out.serializations[1]
               IN /\ W.poset \in Refinements(h_in.poset)
                  /\ arb \in LinearExtensions(W.poset)
                  /\ res.out.arbitration[1] = [i \in 1..Len(arb) |-> h_in.label[arb[i]]]
                  /\ DOMAIN sers = h_in.operations
                  /\ \A op \in h_in.operations : sers[op] = ArbView(h_in, W.poset, op, arb)

\* check_CCv succeeded with an arbitration that is not the first one tried
\* for the returned order
C2_Witness ==
    /\ res.call = "check_CCv"
    /\ ~res.raised
    /\ res.out.is_CCv
    /\ LET sorts == all_topological_sorts(res.out.causal_history[1].poset)
       IN sorts[1] # IdsOf(res.out.arbitration[1])

CMExplains(H, co) ==
    \A op \in H.operations :
        \E log \in ViewLogs(H, co, op, Past(H.poset, op)) : satisfies(log)

\* C3: in check_CM the view of op_id ranges over its causal past under co and
\* shows the returns of exactly its predecessors in the unrefined program
\* order; check_CM succeeds exactly when some co gives every operation a
\* satisfying linear extension of that view.
C3_CheckCMViews ==
    res.call = "check_CM" =>
        /\ ~res.raised
        /\ res.out.is_CM <=> \E co \in Refinements(h_in.poset) : CMExplains(h_in, co)
        /\ res.out.is_CM =>
               LET W == res.out.causal_history[1]
                   sers == res.out.serializations[1]
               IN /\ W.poset \in Refinements(h_in.poset)
                  /\ DOMAIN sers = h_in.operations
                  /\ \A op \in h_in.operations :
                        /\ sers[op] \in ViewLogs(h_in, W.poset, op, Past(h_in.poset, op))
                        /\ satisfies(sers[op])

\* check_CM succeeded and some log shows a program-order predecessor's return
\* next to a hidden entry of another process
C3_Witness ==
    /\ res.call = "check_CM"
    /\ ~res.raised
    /\ res.out.is_CM
    /\ \E op \in h_in.operations :
          LET log == res.out.serializations[1][op]
          IN /\ \E i \in 1..Len(log) : isOperation(log[i]) /\ log[i].op_id # op
             /\ \E i \in 1..Len(log) : ~isOperation(log[i])

\* C4: whenever check_CM returns success, check_CC on the same History and
\* oracle returns success too.
C4_CMImpliesCC ==
    (res.call = "check_CM" /\ ~res.raised /\ res.out.is_CM) =>
        LET cc == check_CC(<<h_in>>, 1)
        IN ~cc.raised /\ cc.result.is_CC

\* check_CM succeeded on a History where reads observe another process's
\* write, so that the order had to be refined
C4_Witness ==
    /\ res.call = "check_CM"
    /\ ~res.raised
    /\ res.out.is_CM
    /\ res.out.causal_history[1].poset.lt # h_in.poset.lt
    /\ check_CC(<<h_in>>, 1).result.is_CC

\* some rd(k) records a value other than None that no wr(k, .) writes
UnwrittenRead(H) ==
    \E o \in H.operations :
        /\ H.label[o].method = "rd"
        /\ H.label[o].ret # None
        /\ \A w \in H.operations :
              ~(H.label[w].method = "wr"
                /\ H.label[w].arg = <<H.label[o].arg[1], H.label[o].ret>>)

\* C5: with the reference memory, check_CC returns failure on every History
\* in which some rd(k) records a value, not None, that no wr(k, .) writes; in
\* particular on P1 = [wr(x,1)], P2 = [rd(x) returning 2].
C5_UnwrittenReadFails ==
    (res.call = "check_CC" /\ UnwrittenRead(h_in)) =>
        ~res.raised /\ ~res.out.is_CC

\* check_CC has returned on P1 = [wr(x,1)], P2 = [rd(x) returning 2]
C5_Witness ==
    /\ data = [a |-> <<Operation("wr", <<"x", "1">>, None, None)>>,
               b |-> <<Operation("rd", <<"x">>, "2", None)>>]
    /\ res.call = "check_CC"
    /\ ~res.raised
    /\ ~res.out.is_CC
    /\ res.out.causal_history = NoObject

Checkers == {"check_CC", "check_CM", "check_CCv"}

Success(r) ==
    IF r.call = "check_CC" THEN r.out.is_CC
    ELSE IF r.call = "check_CM" THEN r.out.is_CM
    ELSE r.out.is_CCv

\* C6: a checker's result is either a success with every witness present (the
\* causal-order History, a log for every operation, and for check_CCv the
\* arbitration) or a failure with every witness absent; a search that finds
\* nothing ends in the failure result, not in an exception.
C6_NoPartialResult ==
    res.call \in Checkers =>
        /\ ~res.raised
        /\ Success(res) =>
              /\ res.out.causal_history # NoObject
              /\ res.out.serializations # NoObject
              /\ DOMAIN res.out.serializations[1] = h_in.operations
              /\ res.call = "check_CCv" => res.out.arbitration # NoObject
        /\ ~Success(res) =>
              /\ res.out.causal_history = NoObject
              /\ res.out.serializations = NoObject
              /\ res.call = "check_CCv" => res.out.arbitration = NoObject

\* check_CCv has searched every order and arbitration of a History that
\* check_CC accepts, and has returned the failure result
C6_Witness ==
    /\ res.call = "check_CCv"
    /\ ~res.raised
    /\ ~res.out.is_CCv
    /\ res.out.causal_history = NoObject
    /\ res.out.arbitration = NoObject
    /\ res.out.serializations = NoObject
    /\ check_CC(<<h_in>>, 1).result.is_CC

FullLabels(H) == \A o \in DOMAIN H.label : isOperation(H.label[o])

Consistent(H) ==
    /\ DOMAIN H.label = H.operations
    /\ H.operations = H.poset.elems

\* C7 (as claimed): in every History value at hand (the caller's, a working
\* copy, one returned by causal_hist, a returned witness) the keys of label,
\* operations and the elements of poset are the same set.
C7_LabelOperationsPoset ==
    /\ Consistent(h)
    /\ res.call \in {"causal_hist", "causal_arb"} => Consistent(res.recv)
    /\ (res.call = "causal_hist" /\ ~res.raised) => Consistent(res.out[1])
    /\ (res.call \in Checkers /\ ~res.raised /\ Success(res)) =>
           Consistent(res.out.causal_history[1])

C9_CausalHistRestricts ==
    (res.call = "causal_hist" /\ FullLabels(res.recv)) =>
        /\ ~res.raised
        /\ LET R == res.out[1]
               W == res.recv
           IN /\ res.op_id \in R.operations
              /\ res.op_id \in R.poset.elems
              /\ R.operations \subseteq Past(W.poset, res.op_id)
              /\ R.poset.elems \subseteq Past(W.poset, res.op_id)
              /\ R.poset.lt \subseteq W.poset.lt
              /\ \A o \in DOMAIN R.label :
                    IF o \in res.ret_set
                    THEN R.label[o] = W.label[o] /\ isOperation(R.label[o])
                    ELSE R.label[o] = Hidden(W.label[o])

\* causal_hist has left an operation out, hidden the return of a predecessor
\* and kept op_id's own
C9_Witness ==
    /\ res.call = "causal_hist"
    /\ ~res.raised
    /\ res.out[1].operations # res.recv.operations
    /\ isOperation(res.out[1].label[res.op_id])
    /\ \E o \in res.out[1].operations : ~isOperation(res.out[1].label[o])

Position(s, o) == CHOOSE i \in 1..Len(s) : s[i] = o

\* C10: causal_arb(op_id, arb) ends with the full Operation recorded for
\* op_id, everything before it is a return-hiding Instruction, and its entries
\* are exactly op_id's causal predecessors that stand at or before op_id in
\* arb, in arb's order.
C10_CausalArbShape ==
    (res.call = "causal_arb" /\ FullLabels(res.recv)) =>
        /\ ~res.raised
        /\ LET log == res.out[1]
               W == res.recv
               upto == SubSeq(res.arb, 1, Position(res.arb, res.op_id))
           IN /\ Len(log) >= 1
              /\ log[Len(log)] = W.label[res.op_id]
              /\ isOperation(log[Len(log)])
              /\ \A i \in 1..(Len(log) - 1) :
                    ~isOperation(log[i]) /\ log[i] = Hidden(W.label[log[i].op_id])
              /\ IdsOf(log) = SelectSeq(upto, LAMBDA o : o \in Past(W.poset, res.op_id))

\* causal_arb has cut off a causal predecessor that arb puts after op_id and
\* kept one that arb puts before it
C10_Witness ==
    /\ res.call = "causal_arb"
    /\ ~res.raised
    /\ Len(res.out[1]) >= 2
    /\ \E o \in Past(res.recv.poset, res.op_id) :
          Position(res.arb, o) > Position(res.arb, res.op_id)
\* ---------------------------------------------------------------- oracle
\* the oracle's state after the first n entries of log, by its own steps
StateAfter(log, n) ==
    LET RECURSIVE F(_)
        F(i) == IF i = 0 THEN start ELSE step(F(i - 1), log[i]).state
    IN F(n)

\* entry i is a full Operation whose recorded return is not the oracle's
Mismatch(log, i) ==
    /\ isOperation(log[i])
    /\ step(StateAfter(log, i - 1), log[i]).op.ret # log[i].ret

\* C11: satisfies(log) is false exactly when some entry of the log is a full
\* Operation whose recorded return differs from the return the oracle computes
\* in the state reached through all earlier entries; Instructions are never
\* compared, and the empty log yields true.
C11_SatisfiesIsFold ==
    res.call = "satisfies" =>
        /\ res.out \in BOOLEAN
        /\ res.out = FALSE <=> \E i \in 1..Len(res.log) : Mismatch(res.log, i)
        /\ res.log = <<>> => res.out = TRUE
        /\ (\A i \in 1..Len(res.log) : ~isOperation(res.log[i])) => res.out = TRUE

\* a log whose only mismatch comes after an Instruction that changed the state
C11_Witness ==
    /\ res.call = "satisfies"
    /\ res.out = FALSE
    /\ Len(res.log) = 3
    /\ ~isOperation(res.log[1]) /\ res.log[1].method = "wr"
    /\ isOperation(res.log[2]) /\ res.log[2].method = "rd"
    /\ ~Mismatch(res.log, 1) /\ ~Mismatch(res.log, 2) /\ Mismatch(res.log, 3)
    /\ StateAfter(res.log, 1) # start

\* the value of the most recent wr to key in log, None if there is none
LastWritten(log, key) ==
    LET ws == {i \in 1..Len(log) : log[i].method = "wr" /\ log[i].arg[1] = key}
    IN IF ws = {} THEN None
       ELSE log[CHOOSE i \in ws : \A j \in ws : j <= i].arg[2]

WrThenRd ==
    <<Operation("wr", <<"x", "1">>, None, None), Operation("rd", <<"x">>, "1", None)>>

RdThenWr ==
    <<Operation("rd", <<"x">>, "1", None), Operation("wr", <<"x", "1">>, None, None)>>

\* C12: rd(key) leaves the state unchanged and returns the value of the most
\* recent earlier wr to that key in the replayed log, or None if there is
\* none; wr returns None; satisfies is true on [wr(x,1), rd(x) recording 1]
\* and false on the same two entries in swapped order.
C12_ReadsLastWrite ==
    /\ (res.call = "step" /\ res.instr.method = "rd") =>
           /\ res.out.state = res.state
           /\ res.out.op.ret = LastWritten(res.log, res.instr.arg[1])
    /\ (res.call = "step" /\ res.instr.method = "wr") =>
           res.out.op.ret = None
    /\ (res.call = "satisfies" /\ res.log = WrThenRd) => res.out = TRUE
    /\ (res.call = "satisfies" /\ res.log = RdThenWr) => res.out = FALSE

\* a read of x after x was written twice, with different values
C12_Witness ==
    /\ res.call = "step"
    /\ res.instr.method = "rd" /\ res.instr.arg[1] = "x"
    /\ Len(res.log) = 2
    /\ res.log[1].method = "wr" /\ res.log[1].arg = <<"x", "2">>
    /\ res.log[2].method = "wr" /\ res.log[2].arg = <<"x", "1">>
    /\ res.out.op.ret = "1"
    /\ res.out.state = res.state

\* ------------------------------------------------------------ construction
\* the id of the i-th entry of process p
IdAt(p, i) == p \o "." \o ToString(i)

Entries == {<<p, i>> \in Procs \X (1..(MaxOps + 1)) : i <= Len(data[p])}

\* C13: the constructed History has exactly one op_id per trace entry, of the
\* form "{process}.{index}" with indices 1..n per process; label maps each
\* op_id to the trace entry at that position with its op_id field set; the
\* poset orders process.i before process.j exactly when i < j, and orders no
\* two operations of different processes.
C13_Construction ==
    /\ h_in.operations = {IdAt(e[1], e[2]) : e \in Entries}
    /\ Cardinality(h_in.operations) = Cardinality(Entries)
    /\ DOMAIN h_in.label = h_in.operations
    /\ \A e \in Entries :
          h_in.label[IdAt(e[1], e[2])] =
              [method |-> data[e[1]][e[2]].method, arg |-> data[e[1]][e[2]].arg,
               ret |-> data[e[1]][e[2]].ret, op_id |-> IdAt(e[1], e[2])]
    /\ h_in.poset.elems = h_in.operations
    /\ h_in.poset.lt =
          {<<IdAt(e[1], e[2]), IdAt(f[1], f[2])>> :
              <<e, f>> \in {g \in Entries \X Entries :
                               g[1][1] = g[2][1] /\ g[1][2] < g[2][2]}}
    /\ \A e \in Entries, f \in Entries :
          e[1] # f[1] =>
              /\ <<IdAt(e[1], e[2]), IdAt(f[1], f[2])>> \notin h_in.poset.lt
              /\ <<IdAt(f[1], f[2]), IdAt(e[1], e[2])>> \notin h_in.poset.lt

\* a History of two processes, one of them with three operations
C13_Witness ==
    /\ h = h_in
    /\ Len(data["a"]) = 1 /\ Len(data["b"]) = 3
    /\ <<"b.1", "b.3">> \in h.poset.lt
    /\ h.label["b.2"].op_id = "b.2"

\* ---------------------------------------------------------------- projection
\* C14: for every Operation o, o.to_instruction() is an Instruction with the
\* method, arg and op_id of o and no return, so Operations that differ only
\* in ret project to equal Instructions.
C14_ProjectionDropsRet ==
    (res.call = "to_instruction" /\ isOperation(res.self)) =>
        /\ DOMAIN res.out = {"method", "arg", "op_id"}
        /\ res.out.method = res.self.method
        /\ res.out.arg = res.self.arg
        /\ res.out.op_id = res.self.op_id
        /\ \A r \in Values \cup {None} :
              to_instruction([res.self EXCEPT !.ret = r]) = res.out

\* the projection of an identified read that recorded a value
C14_Witness ==
    /\ res.call = "to_instruction"
    /\ isOperation(res.self)
    /\ res.self.method = "rd" /\ res.self.ret = "2" /\ res.self.op_id = "b.2"
    /\ res.out = [method |-> "rd", arg |-> res.self.arg, op_id |-> "b.2"]

\* ------------------------------------------------------------- search order
Cands == refinements(h_in.poset)

\* the serializations of op's view under co, in the order they are enumerated
Exts(co, op) == all_topological_sorts(subset(co, Past(co, op)))

Reveal(call, op) == IF call = "check_CC" THEN {op} ELSE Past(h_in.poset, op)

\* the position of the first serialization of op's view that satisfies the
\* oracle, 0 if none does
FirstOk(call, co, op) ==
    LET ok == {k \in 1..Len(Exts(co, op)) :
                  satisfies(ViewLog(h_in, Exts(co, op)[k], Reveal(call, op)))}
    IN IF ok = {} THEN 0 ELSE CHOOSE k \in ok : \A m \in ok : k <= m

Justified(call, co) == \A op \in co.elems : FirstOk(call, co, op) # 0

Won == IF res.call = "check_CC" THEN res.out.is_CC ELSE res.out.is_CM

\* C15: check_CC and check_CM return the first candidate order, in the
\* enumeration order of the refinements, under which every operation is
\* justified, and for each operation the log of the first serialization of its
\* view, in enumeration order, that satisfies the oracle; no serialization is
\* examined after a satisfying one, no candidate after a successful one, and
\* a candidate is abandoned at its first operation without a satisfying
\* serialization.
C15_FirstSuccessWins ==
    (res.call \in {"check_CC", "check_CM"} /\ ~res.raised) =>
        LET n == Len(res.examined)
        IN /\ n <= Len(Cands)
           /\ Won =>
                 /\ n >= 1
                 /\ res.out.causal_history[1].poset = Cands[n]
                 /\ Justified(res.call, Cands[n])
                 /\ \A i \in 1..(n - 1) : ~Justified(res.call, Cands[i])
                 /\ \A op \in h_in.operations :
                       res.out.serializations[1][op] =
                           ViewLog(h_in,
                                   Exts(Cands[n], op)[FirstOk(res.call, Cands[n], op)],
                                   Reveal(res.call, op))
           /\ ~Won =>
                 /\ n = Len(Cands)
                 /\ \A i \in 1..n : ~Justified(res.call, Cands[i])
           /\ \A i \in 1..n :
                 LET seen == res.examined[i]
                     ops == elements(Cands[i])
                 IN /\ Len(seen) <= Len(ops)
                    /\ \A j \in 1..Len(seen) :
                          LET k == FirstOk(res.call, Cands[i], ops[j])
                          IN /\ seen[j].op_id = ops[j]
                             /\ seen[j].ok = (k # 0)
                             /\ seen[j].tried =
                                    IF k # 0 THEN k ELSE Len(Exts(Cands[i], ops[j]))
                    /\ \A j \in 1..(Len(seen) - 1) : seen[j].ok
                    /\ Len(seen) < Len(ops) => ~seen[Len(seen)].ok

\* a success on a later candidate, after a serialization that did not satisfy
C15_Witness ==
    /\ res.call \in {"check_CC", "check_CM"}
    /\ ~res.raised
    /\ Won
    /\ Len(res.examined) >= 2
    /\ Len(res.examined[1]) < Cardinality(h_in.operations)
    /\ \E j \in 1..Len(res.examined[Len(res.examined)]) :
          res.examined[Len(res.examined)][j].tried >= 2

\* ------------------------------------------------- convergence and causality
\* C16: whenever check_CCv returns success, check_CC on the same History and
\* oracle returns success too: under the returned order every log of
\* check_CCv is a serialization of the operation's causal past with only its
\* own return shown, so the order justifies every operation for check_CC.
C16_CCvImpliesCC ==
    (res.call = "check_CCv" /\ ~res.raised /\ res.out.is_CCv) =>
        LET cc == check_CC(<<h_in>>, 1)
            co == res.out.causal_history[1].poset
        IN /\ ~cc.raised /\ cc.result.is_CC
           /\ \A op \in h_in.operations :
                 res.out.serializations[1][op] \in ViewLogs(h_in, co, op, {op})
           /\ CCExplains(h_in, co)

\* check_CCv succeeded on two processes with an order it had to refine
C16_Witness ==
    /\ res.call = "check_CCv"
    /\ ~res.raised
    /\ res.out.is_CCv
    /\ Cardinality(h_in.operations) >= 3
    /\ res.out.causal_history[1].poset.lt # h_in.poset.lt
    /\ check_CC(<<h_in>>, 1).result.is_CC

\* C17: when arb is a linear extension of the receiver's order, as in every
\* call check_CCv makes, op_id is the last element of arb filtered to its
\* causal predecessors, so cutting after op_id drops nothing: the log holds
\* every causal predecessor of op_id exactly once and is as long as op_id's
\* inclusive causal past is large.
C17_CutDropsNothing ==
    (/\ res.call = "causal_arb"
     /\ res.arb \in LinearExtensions(res.recv.poset)) =>
        LET p == Past(res.recv.poset, res.op_id)
            arb2 == SelectSeq(res.arb, LAMBDA o : o \in p)
        IN /\ ~res.raised
           /\ arb2[Len(arb2)] = res.op_id
           /\ IdsOf(res.out[1]) = arb2
           /\ Len(res.out[1]) = Cardinality(p)
           /\ \A o \in p : Cardinality({i \in 1..Len(res.out[1]) :
                                            res.out[1][i].op_id = o}) = 1

\* an arbitration that goes on after op_id, whose past spans both processes
C17_Witness ==
    /\ res.call = "causal_arb"
    /\ ~res.raised
    /\ res.arb \in LinearExtensions(res.recv.poset)
    /\ res.arb[Len(res.arb)] # res.op_id
    /\ Len(res.out[1]) = 2
    /\ res.out[1][1].op_id \notin {o \in h_in.operations :
                                      <<o, res.op_id>> \in h_in.poset.lt}

\* ------------------------------------------------------------ re-applying
\* C18: causal_hist works only on a History whose labels outside ret_set are
\* full Operations: applied to a History that causal_hist returned, it raises
\* exactly when some label outside ret_set is an Instruction already, and
\* then returns no History.
C18_NotReapplicable ==
    res.call = "causal_hist_again" =>
        /\ res.raised <=>
               \E o \in DOMAIN res.recv.label :
                   o \notin res.ret_set /\ ~isOperation(res.recv.label[o])
        /\ res.raised => res.out = NoObject
        /\ ~res.raised => res.out # NoObject

\* the view check_CC builds for an operation, restricted once more for it
C18_Witness ==
    /\ res.call = "causal_hist_again"
    /\ res.raised
    /\ res.out = NoObject
    /\ res.ret_set = {res.op_id}
    /\ Cardinality(res.recv.operations) >= 2
    /\ isOperation(res.recv.label[res.op_id])
    /\ \E o \in res.recv.operations : ~isOperation(res.recv.label[o])

====
